---- MODULE Spec2Model ----
(***************************************************************************)
(* Client-side native input handling of lightyear                          *)
(* (lightyear/src/client/input/native.rs): the per-entity InputBuffer,     *)
(* the assembly of redundant InputMessages, their transmission, the        *)
(* reception of rebroadcast inputs of remote players and the handling of   *)
(* TickSnap events.                                                        *)
(*                                                                         *)
(* InputBuffer, InputMessage and the system sets live in files of the      *)
(* repository that are not part of the source tree at hand                 *)
(* (inputs/native/input_buffer.rs, inputs/native/input_message.rs,         *)
(* client/input/mod.rs); their operators below follow the design           *)
(* document (sections 3, 4.1 and 4.2).                                     *)
(***************************************************************************)
EXTENDS Integers, Sequences, FiniteSets, TLC

VARIABLES
    \* ---- the input buffer on its own (SpecBuf) ----
    b,          \* an InputBuffer
    written,    \* history: tick -> the state last written at that tick, if any
    lastop,     \* history: the operation that produced b
    \* ---- the client app (Spec) ----
    pc,                 \* the schedule the frame is in
    snaps,              \* TickSnap events so far
    steps,              \* fixed steps run in this frame
    replays,            \* fixed steps replayed by the rollback of this frame
    snapped,            \* history: the TickSnap deltas of this frame
    tick,               \* TickManager::tick()
    in_rollback,        \* is_in_rollback
    cfg,                \* ClientConfig, InputConfig<A> and the InputChannel settings
    input_marker,       \* entity -> has InputMarker<A>
    pre_predicted,      \* entity -> has PrePredicted
    predicted,          \* entity -> Option<Predicted>, Predicted = its confirmed_entity
    confirmed,          \* entity -> Option<Confirmed>, Confirmed = its predicted
    remote_entity_map,  \* local entity -> Option<remote entity>
    input_buffer,       \* entity -> Option<InputBuffer<ActionState<A>>>
    message_buffer,     \* MessageBuffer<A>: the InputMessages written this frame
    sent,               \* the messages the channel took in the latest send
    send_log,           \* history: the send_message calls of the latest send, till PreUpdate ends
    \* ---- the network and the server (SpecRed) ----
    outbound,           \* history: every message sent, and whether it arrived
    server_buffer,      \* the server: entity -> its InputBuffer
    \* ---- the reception of the inputs of remote players (SpecRecv) ----
    received_inputs,    \* Events<ClientReceiveMessage<InputMessage<A>>>
    action_state,       \* entity -> Option<ActionState<A>>
    error_log           \* the errors logged since the latest arrival of a message

bufVars == <<b, written, lastop>>

frameVars == <<pc, snaps, steps, replays, snapped, tick, in_rollback>>

worldVars == <<cfg, input_marker, pre_predicted, predicted, confirmed,
               remote_entity_map>>

appVars == <<frameVars, worldVars, input_buffer, message_buffer, sent, send_log>>

netVars == <<outbound, server_buffer>>

recvVars == <<received_inputs, action_state, error_log>>

vars == <<bufVars, appVars, netVars, recvVars>>

(***************************************************************************)
(* Option<T>: None is the empty sequence, Some(x) the one-element sequence *)
(***************************************************************************)
None == <<>>
Some(x) == <<x>>
IsSome(o) == o # <<>>
Unwrap(o) == o[1]

(***************************************************************************)
(* Bounds of the model                                                     *)
(***************************************************************************)
\* the horizon H of an InputBuffer (design document, section 3 (b))
Horizon == 3
\* ticks written to the buffer checked on its own: 0..MaxBufTick
MaxBufTick == 4
\* longest redundant run handed to update_from_message on its own
MaxRun == 3
\* the client tick the fixed steps stop at
MaxTick == 3
\* fixed steps the fixed main loop runs in one frame
MaxSteps == 2
\* fixed steps one rollback replays
MaxReplays == 1
\* TickSnap events of one run
MaxSnaps == 1
\* the latest end_tick of a received message
MaxRecvTick == 2
\* the most messages waiting in the events of received messages
MaxInbound == 2

(***************************************************************************)
(* ActionState<A>: the input of one tick; "none" is ActionState::default() *)
(* (value: None, no input), "a" and "b" are two inputs Some(A).            *)
(***************************************************************************)
ActionStates == {"none", "a", "b"}
DefaultActionState == "none"

\* A slot of the buffer that no write set: it repeats the nearest earlier
\* known state (fill-forward).
FillForward == "fill"

(***************************************************************************)
(* InputBuffer<ActionState<A>>: start_tick (the tick of element 1, None    *)
(* while nothing was written) and a deque of slots, one per tick, without  *)
(* holes.                                                                  *)
(***************************************************************************)
InputBufferDefault == [start_tick |-> None, buffer |-> <<>>]

\* the latest tick the buffer holds (the buffer is not empty)
BufferEndTick(buf) == Unwrap(buf.start_tick) + Len(buf.buffer) - 1

\* the state of slot i of s: the slot's own state, or the nearest earlier one
RECURSIVE SlotState(_, _)
SlotState(s, i) ==
    IF i < 1 THEN DefaultActionState
    ELSE IF s[i] # FillForward THEN s[i]
    ELSE SlotState(s, i - 1)

\* a read that never expires: before start_tick it gives the oldest state
BufferGetOldest(buf, t) ==
    IF buf.start_tick = None THEN [kind |-> "empty", value |-> DefaultActionState]
    ELSE IF t > BufferEndTick(buf)
        THEN [kind |-> "ok", value |-> SlotState(buf.buffer, Len(buf.buffer))]
    ELSE IF t < Unwrap(buf.start_tick)
        THEN [kind |-> "ok", value |-> SlotState(buf.buffer, 1)]
    ELSE [kind |-> "ok",
          value |-> SlotState(buf.buffer, t - Unwrap(buf.start_tick) + 1)]

\* InputBuffer::get (read): "expired" before start_tick, the slot's state
\* in the buffer, the latest state (fill-forward) beyond it.
BufferGet(buf, t) ==
    IF buf.start_tick = None THEN [kind |-> "empty", value |-> DefaultActionState]
    ELSE IF t < Unwrap(buf.start_tick)
        THEN [kind |-> "expired", value |-> DefaultActionState]
    ELSE IF t > BufferEndTick(buf)
        THEN [kind |-> "ok", value |-> SlotState(buf.buffer, Len(buf.buffer))]
    ELSE [kind |-> "ok",
          value |-> SlotState(buf.buffer, t - Unwrap(buf.start_tick) + 1)]

\* a write that evicts one entry at most
BufferSetEvictOne(buf, t, v) ==
    IF buf.start_tick = None THEN [start_tick |-> Some(t), buffer |-> <<v>>]
    ELSE IF t < Unwrap(buf.start_tick) THEN buf
    ELSE IF t <= BufferEndTick(buf)
        THEN [buf EXCEPT !.buffer[t - Unwrap(buf.start_tick) + 1] = v]
    ELSE LET ext == buf.buffer
                    \o [i \in 1..(t - BufferEndTick(buf) - 1) |-> FillForward]
                    \o <<v>>
             drop == IF Len(ext) > Horizon THEN 1 ELSE 0
             kept == SubSeq(ext, drop + 1, Len(ext))
         IN [start_tick |-> Some(Unwrap(buf.start_tick) + drop),
             buffer |-> [kept EXCEPT ![1] = SlotState(ext, drop + 1)]]

\* a write that copies nothing forward: the ticks it skips are left as the
\* default state
BufferSetNoFill(buf, t, v) ==
    IF buf.start_tick = None THEN [start_tick |-> Some(t), buffer |-> <<v>>]
    ELSE IF t < Unwrap(buf.start_tick) THEN buf
    ELSE IF t <= BufferEndTick(buf)
        THEN [buf EXCEPT !.buffer[t - Unwrap(buf.start_tick) + 1] = v]
    ELSE LET ext == buf.buffer
                    \o [i \in 1..(t - BufferEndTick(buf) - 1) |-> DefaultActionState]
                    \o <<v>>
             drop == IF Len(ext) > Horizon THEN Len(ext) - Horizon ELSE 0
         IN [start_tick |-> Some(Unwrap(buf.start_tick) + drop),
             buffer |-> SubSeq(ext, drop + 1, Len(ext))]

\* InputBuffer::set (write): inserts or overwrites the state at tick t,
\* extends the buffer forward over the skipped ticks, and evicts the oldest
\* entries past the horizon (start_tick advances by as many).  A tick before
\* start_tick is expired and the write is dropped.
BufferSet(buf, t, v) ==
    IF buf.start_tick = None THEN [start_tick |-> Some(t), buffer |-> <<v>>]
    ELSE IF t < Unwrap(buf.start_tick) THEN buf
    ELSE IF t <= BufferEndTick(buf)
        THEN [buf EXCEPT !.buffer[t - Unwrap(buf.start_tick) + 1] = v]
    ELSE LET ext == buf.buffer
                    \o [i \in 1..(t - BufferEndTick(buf) - 1) |-> FillForward]
                    \o <<v>>
             drop == IF Len(ext) > Horizon THEN Len(ext) - Horizon ELSE 0
             kept == SubSeq(ext, drop + 1, Len(ext))
         IN [start_tick |-> Some(Unwrap(buf.start_tick) + drop),
             buffer |-> [kept EXCEPT ![1] = SlotState(ext, drop + 1)]]

\* whether the write of tick t is taken by the buffer (not expired)
BufferAccepts(buf, t) == buf.start_tick = None \/ t >= Unwrap(buf.start_tick)

\* an update that writes every state of the run, whatever the buffer holds
RECURSIVE UpdateOverwriting(_, _, _)
UpdateOverwriting(buf, end_tick, states) ==
    IF states = <<>> THEN buf
    ELSE UpdateOverwriting(BufferSet(buf, end_tick - Len(states) + 1, states[1]),
                           end_tick, Tail(states))

\* InputBuffer::update_from_message: merges the redundant run that ends at
\* end_tick, oldest first; a tick is written only if the buffer holds no
\* entry at that tick or a newer one (an equal tick keeps the existing one).
RECURSIVE BufferUpdateFromMessage(_, _, _)
BufferUpdateFromMessage(buf, end_tick, states) ==
    IF states = <<>> THEN buf
    ELSE LET t == end_tick - Len(states) + 1
             next == IF buf.start_tick # None /\ t <= BufferEndTick(buf)
                        THEN buf
                        ELSE BufferSet(buf, t, states[1])
         IN BufferUpdateFromMessage(next, end_tick, Tail(states))

(***************************************************************************)
(* Entities of the client world and of the server                          *)
(***************************************************************************)
Entities == {1, 2, 3}
RemoteEntities == {11, 12, 13}

\* InputTarget
EntityTarget(e) == [kind |-> "Entity", entity |-> e]
PrePredictedEntityTarget(e) == [kind |-> "PrePredictedEntity", entity |-> e]

\* InputMessage::new(end_tick): no inputs, no interpolation delay
InputMessageNew(end_tick) ==
    [end_tick |-> end_tick, inputs |-> <<>>, interpolation_delay |-> None]

\* the state a message carries for tick t of a buffer: the state read, or
\* the default state when the read fails
StateForMessage(buf, t) ==
    IF BufferGet(buf, t).kind = "ok" THEN BufferGet(buf, t).value
    ELSE DefaultActionState

\* InputMessage::add_inputs(num_tick, target, input_buffer): appends the
\* target with the run of num_tick states that ends at the message's
\* end_tick, oldest first.
AddInputs(message, num_tick, target, buf) ==
    [message EXCEPT !.inputs = Append(@,
        [target |-> target,
         states |-> [i \in 1..num_tick |->
                        StateForMessage(buf, message.end_tick - num_tick + i)]])]

(***************************************************************************)
(* Configuration                                                           *)
(***************************************************************************)
\* Duration::from_secs_f64(1.0 / FIXED_TIMESTEP_HZ), in nanoseconds
TickDuration == 15625000

\* u16
U16 == 65536

\* the ticks of one send interval, plus one (u128, before try_into)
TicksPerSend(c) == (c.input_send_interval \div c.tick_duration) + 1

\* the panics of the computation of num_tick: the InputChannel is not in
\* the ChannelRegistry (unwrap of None), the tick duration is zero (division
\* by zero), the ticks of a send interval do not fit a u16 (unwrap of the
\* try_into error), the product overflows a u16 in a build with overflow
\* checks
NumTickPanics(c) ==
    \/ ~c.input_channel
    \/ c.tick_duration = 0
    \/ TicksPerSend(c) >= U16
    \/ (c.overflow_checks /\ TicksPerSend(c) * c.packet_redundancy >= U16)

\* a redundancy window that leaves the redundancy factor out
NumTickNoRedundancy(c) == TicksPerSend(c) % U16

\* num_tick of prepare_input_message, when it does not panic: the number of
\* ticks of one send interval, plus one, times the packet redundancy; the
\* product of a build without overflow checks wraps
NumTick(c) == (TicksPerSend(c) * c.packet_redundancy) % U16

(***************************************************************************)
(* prepare_input_message                                                   *)
(***************************************************************************)
\* the current tick, the input delay left out
TickWithoutDelay == tick

\* the delayed tick the message is written for
DelayedTick == tick + cfg.input_delay_ticks

\* the query: entities with an InputBuffer and an InputMarker
InputBufferQuery == {e \in Entities : IsSome(input_buffer[e]) /\ input_marker[e]}

\* a resolution that takes every entity for its own confirmed entity
ConfirmedIsSelf(e) == Some(e)

\* predicted.map_or(Some(entity), |p| p.confirmed_entity)
ConfirmedOf(e) ==
    IF predicted[e] = None THEN Some(e) ELSE Unwrap(predicted[e])

\* a loop body that does not wait for the confirmation of a pre-predicted
\* entity
AddEntityUnconfirmed(message, e) ==
    IF pre_predicted[e]
        THEN AddInputs(message, NumTick(cfg), PrePredictedEntityTarget(e),
                       Unwrap(input_buffer[e]))
    ELSE IF IsSome(ConfirmedOf(e))
            /\ IsSome(remote_entity_map[Unwrap(ConfirmedOf(e))])
        THEN AddInputs(message, NumTick(cfg),
                       EntityTarget(Unwrap(remote_entity_map[Unwrap(ConfirmedOf(e))])),
                       Unwrap(input_buffer[e]))
    ELSE message

\* a loop body that never sends the inputs of a pre-predicted entity
AddEntityNeverPrePredicted(message, e) ==
    IF pre_predicted[e] THEN message
    ELSE IF IsSome(ConfirmedOf(e))
            /\ IsSome(remote_entity_map[Unwrap(ConfirmedOf(e))])
        THEN AddInputs(message, NumTick(cfg),
                       EntityTarget(Unwrap(remote_entity_map[Unwrap(ConfirmedOf(e))])),
                       Unwrap(input_buffer[e]))
    ELSE message

\* a loop body that addresses every entity by its local id
AddEntityLocalTarget(message, e) ==
    IF pre_predicted[e] /\ predicted[e] = None THEN message
    ELSE AddInputs(message, NumTick(cfg), EntityTarget(e), Unwrap(input_buffer[e]))

\* the body of the loop over the query, for entity e
AddEntity(message, e) ==
    IF pre_predicted[e]
        THEN IF predicted[e] = None
                THEN message
                ELSE AddInputs(message, NumTick(cfg), PrePredictedEntityTarget(e),
                               Unwrap(input_buffer[e]))
    ELSE IF IsSome(ConfirmedOf(e))
            /\ IsSome(remote_entity_map[Unwrap(ConfirmedOf(e))])
        THEN AddInputs(message, NumTick(cfg),
                       EntityTarget(Unwrap(remote_entity_map[Unwrap(ConfirmedOf(e))])),
                       Unwrap(input_buffer[e]))
    ELSE message

\* the loop over the query, in the order the query yields the entities
RECURSIVE AddEntities(_, _)
AddEntities(message, order) ==
    IF order = <<>> THEN message
    ELSE AddEntities(AddEntity(message, Head(order)), Tail(order))

\* the orders in which a query may yield the entities of S
QueryOrders(S) ==
    {o \in [1..Cardinality(S) -> S] : \A i, j \in DOMAIN o : i # j => o[i] # o[j]}

\* a system that pushes its message only when some entity has inputs
PushIfInputs(order) ==
    LET message == AddEntities(InputMessageNew(DelayedTick), order) IN
    /\ message_buffer' = IF message.inputs = <<>> THEN message_buffer
                         ELSE Append(message_buffer, message)
    /\ UNCHANGED input_buffer

\* a system that drains the buffers it has read into the message
PrepareAndDrain(order) ==
    /\ message_buffer' =
            Append(message_buffer, AddEntities(InputMessageNew(DelayedTick), order))
    /\ input_buffer' = [e \in Entities |->
            IF e \in InputBufferQuery THEN Some(InputBufferDefault)
            ELSE input_buffer[e]]

\* the system: one message, pushed to the MessageBuffer even with no
\* inputs; the query borrows the InputBuffers immutably and the older values
\* are kept in them
prepare_input_message(order) ==
    /\ message_buffer' =
            Append(message_buffer, AddEntities(InputMessageNew(DelayedTick), order))
    /\ UNCHANGED input_buffer

\* a system that also runs during rollback
RunsAlways == TRUE

\* .run_if(not(is_in_rollback))
PrepareRunCondition == ~in_rollback

(***************************************************************************)
(* send_input_messages                                                     *)
(***************************************************************************)
\* the interpolation delay of the SyncManager (a collaborator)
InterpolationDelay == "interpolation_delay"

\* the message as handed to the channel
Outgoing(message) ==
    IF cfg.lag_compensation
        THEN [message EXCEPT !.interpolation_delay = Some(InterpolationDelay)]
        ELSE message

\* the elements of q the channel took; taken[i] tells whether send_message
\* returned Ok for element i
RECURSIVE Taken(_, _)
Taken(q, taken) ==
    IF q = <<>> THEN <<>>
    ELSE (IF Head(taken) THEN <<Outgoing(Head(q))>> ELSE <<>>)
         \o Taken(Tail(q), Tail(taken))

\* the send_message calls of a send: every message of q, whether the
\* channel took it or not
SendLog(q, taken) ==
    [i \in 1..Len(q) |-> [message |-> Outgoing(q[i]), ok |-> taken[i]]]

\* the elements of q the channel did not take
RECURSIVE NotTaken(_, _)
NotTaken(q, taken) ==
    IF q = <<>> THEN <<>>
    ELSE (IF Head(taken) THEN <<>> ELSE <<Head(q)>>)
         \o NotTaken(Tail(q), Tail(taken))

\* a system that iterates over the MessageBuffer without draining it
SendWithoutDrain(taken) ==
    /\ sent' = Taken(message_buffer, taken)
    /\ send_log' = SendLog(message_buffer, taken)
    /\ UNCHANGED message_buffer

\* a system that keeps the messages the channel did not take for the next
\* frame
SendRequeueFailed(taken) ==
    /\ sent' = Taken(message_buffer, taken)
    /\ send_log' = SendLog(message_buffer, taken)
    /\ message_buffer' = NotTaken(message_buffer, taken)

\* a system that pops the messages off the end of the MessageBuffer: the
\* latest message is sent first
SendLatestFirst(taken) ==
    LET reversed == [i \in 1..Len(message_buffer) |->
                        message_buffer[Len(message_buffer) + 1 - i]] IN
    /\ sent' = Taken(reversed, taken)
    /\ send_log' = SendLog(reversed, taken)
    /\ message_buffer' = <<>>

\* the system: drains the MessageBuffer and sends every message; an error
\* of the channel is logged and the message is gone
send_input_messages(taken) ==
    /\ sent' = Taken(message_buffer, taken)
    /\ send_log' = SendLog(message_buffer, taken)
    /\ message_buffer' = <<>>

(***************************************************************************)
(* receive_tick_events                                                     *)
(***************************************************************************)
\* an observer that moves the buffers and forgets the MessageBuffer
TickSnapBuffersOnly(old_tick, new_tick) ==
    /\ input_buffer' = [e \in Entities |->
            IF IsSome(input_buffer[e]) /\ IsSome(Unwrap(input_buffer[e]).start_tick)
                THEN Some([Unwrap(input_buffer[e]) EXCEPT !.start_tick =
                        Some(Unwrap(@) + (new_tick - old_tick))])
                ELSE input_buffer[e]]
    /\ UNCHANGED <<message_buffer, sent>>

\* an observer that moves the buffers and, of the MessageBuffer, the oldest
\* message only
TickSnapOldestOnly(old_tick, new_tick) ==
    /\ input_buffer' = [e \in Entities |->
            IF IsSome(input_buffer[e]) /\ IsSome(Unwrap(input_buffer[e]).start_tick)
                THEN Some([Unwrap(input_buffer[e]) EXCEPT !.start_tick =
                        Some(Unwrap(@) + (new_tick - old_tick))])
                ELSE input_buffer[e]]
    /\ message_buffer' = [i \in 1..Len(message_buffer) |->
            IF i = 1
                THEN [message_buffer[i] EXCEPT !.end_tick = @ + (new_tick - old_tick)]
                ELSE message_buffer[i]]
    /\ UNCHANGED sent

\* an observer that gives a buffer without start_tick the new tick as its
\* start_tick
TickSnapSetsStart(old_tick, new_tick) ==
    /\ input_buffer' = [e \in Entities |->
            IF IsSome(input_buffer[e])
                THEN Some([Unwrap(input_buffer[e]) EXCEPT !.start_tick =
                        IF IsSome(@) THEN Some(Unwrap(@) + (new_tick - old_tick))
                        ELSE Some(new_tick)])
                ELSE input_buffer[e]]
    /\ message_buffer' = [i \in 1..Len(message_buffer) |->
            [message_buffer[i] EXCEPT !.end_tick = @ + (new_tick - old_tick)]]
    /\ UNCHANGED sent

\* an observer that also moves the messages the channel has taken
TickSnapInFlight(old_tick, new_tick) ==
    /\ input_buffer' = [e \in Entities |->
            IF IsSome(input_buffer[e]) /\ IsSome(Unwrap(input_buffer[e]).start_tick)
                THEN Some([Unwrap(input_buffer[e]) EXCEPT !.start_tick =
                        Some(Unwrap(@) + (new_tick - old_tick))])
                ELSE input_buffer[e]]
    /\ message_buffer' = [i \in 1..Len(message_buffer) |->
            [message_buffer[i] EXCEPT !.end_tick = @ + (new_tick - old_tick)]]
    /\ sent' = [i \in 1..Len(sent) |->
            [sent[i] EXCEPT !.end_tick = @ + (new_tick - old_tick)]]

\* the observer, on TickEvent::TickSnap { old_tick, new_tick }: it has the
\* MessageBuffer and the InputBuffers, and no access to the messages the
\* channel has taken
receive_tick_events(old_tick, new_tick) ==
    /\ input_buffer' = [e \in Entities |->
            IF IsSome(input_buffer[e]) /\ IsSome(Unwrap(input_buffer[e]).start_tick)
                THEN Some([Unwrap(input_buffer[e]) EXCEPT !.start_tick =
                        Some(Unwrap(@) + (new_tick - old_tick))])
                ELSE input_buffer[e]]
    /\ message_buffer' = [i \in 1..Len(message_buffer) |->
            [message_buffer[i] EXCEPT !.end_tick = @ + (new_tick - old_tick)]]
    /\ UNCHANGED sent

(***************************************************************************)
(* The worlds and configurations the client app starts in                  *)
(***************************************************************************)
NoEntity == [e \in Entities |-> None]

\* Entity 1 is pre-predicted and controlled, not yet confirmed; entity 2 is
\* a confirmed entity, entity 3 its predicted entity, which is controlled.
WorldPredicted ==
    [input_marker |-> (1 :> TRUE @@ 2 :> FALSE @@ 3 :> TRUE),
     pre_predicted |-> (1 :> TRUE @@ 2 :> FALSE @@ 3 :> FALSE),
     predicted |-> (1 :> None @@ 2 :> None @@ 3 :> Some(Some(2))),
     confirmed |-> (1 :> None @@ 2 :> Some(Some(3)) @@ 3 :> None),
     remote_entity_map |-> (1 :> None @@ 2 :> Some(12) @@ 3 :> None),
     input_buffer |-> (1 :> Some(InputBufferDefault) @@ 2 :> None
                       @@ 3 :> Some(InputBufferDefault))]

\* Entity 1 is pre-predicted, controlled and already in the entity map;
\* the confirmed entity 2 is controlled, its predicted entity 3 holds the
\* inputs received for it.
WorldConfirmed ==
    [input_marker |-> (1 :> TRUE @@ 2 :> TRUE @@ 3 :> FALSE),
     pre_predicted |-> (1 :> TRUE @@ 2 :> FALSE @@ 3 :> FALSE),
     predicted |-> (1 :> None @@ 2 :> None @@ 3 :> Some(Some(2))),
     confirmed |-> (1 :> None @@ 2 :> Some(Some(3)) @@ 3 :> None),
     remote_entity_map |-> (1 :> Some(11) @@ 2 :> Some(12) @@ 3 :> None),
     input_buffer |-> (1 :> Some(InputBufferDefault) @@ 2 :> Some(InputBufferDefault)
                       @@ 3 :> Some([start_tick |-> Some(0), buffer |-> <<"b">>]))]

\* The confirmed entity 2 and its predicted entity 3 are both controlled;
\* entity 1 is a replicated entity without its remote counterpart.
WorldBoth ==
    [input_marker |-> (1 :> FALSE @@ 2 :> TRUE @@ 3 :> TRUE),
     pre_predicted |-> (1 :> FALSE @@ 2 :> FALSE @@ 3 :> FALSE),
     predicted |-> (1 :> None @@ 2 :> None @@ 3 :> Some(Some(2))),
     confirmed |-> (1 :> None @@ 2 :> Some(Some(3)) @@ 3 :> None),
     remote_entity_map |-> (1 :> None @@ 2 :> Some(12) @@ 3 :> None),
     input_buffer |-> (1 :> None @@ 2 :> Some(InputBufferDefault)
                       @@ 3 :> Some(InputBufferDefault))]

\* Entity 1 is controlled and not in the entity map; entity 3 is controlled
\* and predicted, its confirmed entity unknown.
WorldUnresolved ==
    [input_marker |-> (1 :> TRUE @@ 2 :> FALSE @@ 3 :> TRUE),
     pre_predicted |-> (1 :> FALSE @@ 2 :> FALSE @@ 3 :> FALSE),
     predicted |-> (1 :> None @@ 2 :> None @@ 3 :> Some(None)),
     confirmed |-> (1 :> None @@ 2 :> Some(None) @@ 3 :> None),
     remote_entity_map |-> (1 :> None @@ 2 :> Some(12) @@ 3 :> None),
     input_buffer |-> (1 :> Some(InputBufferDefault) @@ 2 :> None
                       @@ 3 :> Some(InputBufferDefault))]

\* No entity is controlled.
WorldIdle ==
    [input_marker |-> (1 :> FALSE @@ 2 :> FALSE @@ 3 :> FALSE),
     pre_predicted |-> (1 :> FALSE @@ 2 :> FALSE @@ 3 :> FALSE),
     predicted |-> (1 :> None @@ 2 :> None @@ 3 :> Some(Some(2))),
     confirmed |-> (1 :> None @@ 2 :> Some(Some(3)) @@ 3 :> None),
     remote_entity_map |-> (1 :> None @@ 2 :> Some(12) @@ 3 :> None),
     input_buffer |-> (1 :> None @@ 2 :> None
                       @@ 3 :> Some([start_tick |-> Some(0), buffer |-> <<"b">>]))]

Worlds == {WorldPredicted, WorldConfirmed, WorldBoth, WorldUnresolved, WorldIdle}

\* The InputChannel sends every frame or every tick; the inputs are sent
\* once or twice.
Configs ==
    {[input_send_interval |-> 0, tick_duration |-> TickDuration,
      packet_redundancy |-> 1, input_delay_ticks |-> 0,
      lag_compensation |-> FALSE, rebroadcast_inputs |-> FALSE,
      input_channel |-> TRUE, overflow_checks |-> FALSE],
     [input_send_interval |-> TickDuration, tick_duration |-> TickDuration,
      packet_redundancy |-> 2, input_delay_ticks |-> 1,
      lag_compensation |-> TRUE, rebroadcast_inputs |-> FALSE,
      input_channel |-> TRUE, overflow_checks |-> FALSE]}

(***************************************************************************)
(* The states in which a part of the model rests while another is checked  *)
(***************************************************************************)
BufIdle ==
    /\ b = InputBufferDefault
    /\ written = <<>>
    /\ lastop = [kind |-> "new", kept |-> 0, added |-> 0]

AppIdle ==
    /\ pc = "idle" /\ snaps = 0 /\ steps = 0 /\ replays = 0 /\ snapped = <<>>
    /\ tick = 0 /\ in_rollback = FALSE
    /\ cfg = CHOOSE c \in Configs : c.packet_redundancy = 1
    /\ input_marker = WorldIdle.input_marker
    /\ pre_predicted = WorldIdle.pre_predicted
    /\ predicted = WorldIdle.predicted
    /\ confirmed = WorldIdle.confirmed
    /\ remote_entity_map = WorldIdle.remote_entity_map
    /\ input_buffer = NoEntity
    /\ message_buffer = <<>>
    /\ sent = <<>>
    /\ send_log = <<>>

NetIdle ==
    /\ outbound = <<>>
    /\ server_buffer = [r \in RemoteEntities |-> InputBufferDefault]

RecvIdle ==
    /\ received_inputs = <<>>
    /\ action_state = NoEntity
    /\ error_log = <<>>

(***************************************************************************)
(* SpecBuf: one InputBuffer under any sequence of writes and updates       *)
(***************************************************************************)
BufTicks == 0..MaxBufTick

Runs == UNION {[1..n -> ActionStates \ {"b"}] : n \in 1..MaxRun}

BufInit ==
    /\ b = InputBufferDefault
    /\ written = [t \in BufTicks |-> None]
    /\ lastop = [kind |-> "new", kept |-> 0, added |-> 0]
    /\ AppIdle
    /\ NetIdle
    /\ RecvIdle

\* write(tick, state)
Write(t, v) ==
    /\ b' = BufferSet(b, t, v)
    /\ written' = IF BufferAccepts(b, t) THEN [written EXCEPT ![t] = Some(v)]
                  ELSE written
    /\ lastop' = [kind |-> "write", kept |-> 0, added |-> 0]
    /\ UNCHANGED <<appVars, netVars, recvVars>>

\* the ticks of a run that the buffer takes: those beyond its latest tick
RunTaken(buf, end_tick, n) ==
    {t \in (end_tick - n + 1)..end_tick :
        buf.start_tick = None \/ t > BufferEndTick(buf)}

\* update_from_message(end_tick, states)
Update(end_tick, states) ==
    /\ end_tick - Len(states) + 1 \in BufTicks
    /\ b' = BufferUpdateFromMessage(b, end_tick, states)
    /\ LET taken == RunTaken(b, end_tick, Len(states)) IN
        /\ written' = [t \in BufTicks |->
                IF t \in taken
                    THEN Some(states[t - (end_tick - Len(states) + 1) + 1])
                    ELSE written[t]]
        /\ lastop' = [kind |-> "update",
                      kept |-> Len(states) - Cardinality(taken),
                      added |-> Cardinality(taken)]
    /\ UNCHANGED <<appVars, netVars, recvVars>>

\* get(tick): the buffer is read, lastop keeps the result
Read(t) ==
    /\ lastop' = [kind |-> "read", tick |-> t, result |-> BufferGet(b, t)]
    /\ UNCHANGED <<b, written, appVars, netVars, recvVars>>

BufNext ==
    \/ \E t \in BufTicks, v \in ActionStates : Write(t, v)
    \/ \E e \in BufTicks, s \in Runs : Update(e, s)
    \/ \E t \in BufTicks : Read(t)

SpecBuf == BufInit /\ [][BufNext]_vars

(***************************************************************************)
(* SpecSync: one InputBuffer under writes, updates and TickSnaps           *)
(***************************************************************************)
\* a TickSnap that moves the start_tick the wrong way
ShiftStartTickBack(buf, old_tick, new_tick) ==
    IF IsSome(buf.start_tick)
        THEN [buf EXCEPT !.start_tick = Some(Unwrap(@) - (new_tick - old_tick))]
        ELSE buf

\* a TickSnap that makes the new tick the start_tick
ShiftStartTickToNew(buf, old_tick, new_tick) ==
    IF IsSome(buf.start_tick)
        THEN [buf EXCEPT !.start_tick = Some(new_tick)]
        ELSE buf

\* receive_tick_events, for one buffer: a start_tick that is set moves by
\* new_tick - old_tick, the states stay
ShiftStartTick(buf, old_tick, new_tick) ==
    IF IsSome(buf.start_tick)
        THEN [buf EXCEPT !.start_tick = Some(Unwrap(@) + (new_tick - old_tick))]
        ELSE buf

\* TickEvent::TickSnap { old_tick, new_tick }, the clock moving by delta:
\* the ticks at which the states were written move with the clock (the
\* ticks of the history stay in BufTicks)
Resync(delta) ==
    /\ \A t \in BufTicks : IsSome(written[t]) => t + delta \in BufTicks
    /\ IsSome(b.start_tick) => BufferEndTick(b) + delta <= MaxBufTick
    /\ b' = ShiftStartTick(b, 0, delta)
    /\ written' = [t \in BufTicks |->
            IF t - delta \in BufTicks THEN written[t - delta] ELSE None]
    /\ lastop' = [kind |-> "resync", delta |-> delta, before |-> b]
    /\ UNCHANGED <<appVars, netVars, recvVars>>

SyncNext ==
    \/ \E t \in BufTicks, v \in ActionStates : Write(t, v)
    \/ \E e \in BufTicks, s \in Runs : Update(e, s)
    \/ \E d \in {-1, 2} : Resync(d)

SpecSync == BufInit /\ [][SyncNext]_vars

(***************************************************************************)
(* Spec: the frames of the client app.  A frame runs PreUpdate (the        *)
(* replication is received, a rollback may replay fixed steps), the fixed  *)
(* main loop (zero or more fixed steps: FixedPreUpdate buffers the inputs, *)
(* FixedPostUpdate prepares the message), and PostUpdate (the sync may     *)
(* snap the tick, then the messages are sent).                             *)
(***************************************************************************)
CaptureStates == {"none", "a"}

TickSnapDeltas == {-1, 2}

Init ==
    /\ BufIdle
    /\ NetIdle
    /\ RecvIdle
    /\ pc = "PreUpdate" /\ snaps = 0 /\ steps = 0 /\ replays = 0 /\ snapped = <<>>
    /\ tick = 0 /\ in_rollback = FALSE
    /\ cfg \in Configs
    /\ \E w \in Worlds :
        /\ input_marker = w.input_marker
        /\ pre_predicted = w.pre_predicted
        /\ predicted = w.predicted
        /\ confirmed = w.confirmed
        /\ remote_entity_map = w.remote_entity_map
        /\ input_buffer = w.input_buffer
    /\ message_buffer = <<>>
    /\ sent = <<>>
    /\ send_log = <<>>

\* PreUpdate: the server's confirmation of the pre-predicted entity e
\* arrives; the replication inserts Predicted.
ReceiveConfirmation(e) ==
    /\ pc = "PreUpdate"
    /\ pre_predicted[e] /\ predicted[e] = None
    /\ predicted' = [predicted EXCEPT ![e] = Some(Some(2))]
    /\ UNCHANGED <<bufVars, netVars, recvVars, frameVars, cfg, input_marker, pre_predicted, confirmed,
                   remote_entity_map, input_buffer, message_buffer, sent, send_log>>

\* PreUpdate: the prediction starts a rollback.
StartRollback ==
    /\ pc = "PreUpdate"
    /\ pc' = "Rollback" /\ in_rollback' = TRUE
    /\ UNCHANGED <<bufVars, netVars, recvVars, snaps, steps, replays, snapped, tick, worldVars,
                   input_buffer, message_buffer, sent, send_log>>

\* Rollback: one more fixed step is replayed.
ReplayFixedStep ==
    /\ pc = "Rollback" /\ replays < MaxReplays
    /\ pc' = "FixedPreUpdate" /\ replays' = replays + 1
    /\ UNCHANGED <<bufVars, netVars, recvVars, snaps, steps, snapped, tick, in_rollback, worldVars,
                   input_buffer, message_buffer, sent, send_log>>

\* Rollback: the replay is over.
EndRollback ==
    /\ pc = "Rollback" /\ replays > 0
    /\ pc' = "RunFixedMainLoop" /\ in_rollback' = FALSE
    /\ UNCHANGED <<bufVars, netVars, recvVars, snaps, steps, replays, snapped, tick, worldVars,
                   input_buffer, message_buffer, sent, send_log>>

\* PreUpdate ends without a rollback.
EndPreUpdate ==
    /\ pc = "PreUpdate"
    /\ pc' = "RunFixedMainLoop"
    /\ send_log' = <<>>
    /\ UNCHANGED <<bufVars, netVars, recvVars, snaps, steps, replays, snapped, tick, in_rollback,
                   worldVars, input_buffer, message_buffer, sent>>

\* RunFixedMainLoop: the tick advances and a fixed step starts.
StartFixedStep ==
    /\ pc = "RunFixedMainLoop" /\ steps < MaxSteps /\ tick < MaxTick
    /\ pc' = "FixedPreUpdate" /\ steps' = steps + 1 /\ tick' = tick + 1
    /\ UNCHANGED <<bufVars, netVars, recvVars, snaps, replays, snapped, in_rollback, worldVars,
                   input_buffer, message_buffer, sent, send_log>>

\* FixedPreUpdate (InputSystemSet::BufferInputs): the ActionState of every
\* controlled entity (the same input here) is written to its buffer at the
\* delayed tick; during a rollback nothing is written.
BufferInputs(state) ==
    /\ pc = "FixedPreUpdate"
    /\ pc' = "FixedPostUpdate"
    /\ input_buffer' = [e \in Entities |->
            IF e \in InputBufferQuery /\ ~in_rollback
                THEN Some(BufferSet(Unwrap(input_buffer[e]), DelayedTick, state))
                ELSE input_buffer[e]]
    /\ UNCHANGED <<bufVars, netVars, recvVars, snaps, steps, replays, snapped, tick, in_rollback,
                   worldVars, message_buffer, sent, send_log>>

\* FixedPostUpdate (InputSystemSet::PrepareInputMessage)
FixedPostUpdate(order) ==
    /\ pc = "FixedPostUpdate"
    /\ IF PrepareRunCondition /\ NumTickPanics(cfg)
        THEN /\ pc' = "Panicked"
             /\ UNCHANGED <<message_buffer, input_buffer>>
        ELSE /\ pc' = IF in_rollback THEN "Rollback" ELSE "RunFixedMainLoop"
             /\ IF PrepareRunCondition
                    THEN prepare_input_message(order)
                    ELSE UNCHANGED <<message_buffer, input_buffer>>
    /\ UNCHANGED <<bufVars, netVars, recvVars, snaps, steps, replays, snapped, tick, in_rollback,
                   worldVars, sent, send_log>>

\* RunFixedMainLoop ends: no more fixed step in this frame.
EndFixedMainLoop ==
    /\ pc = "RunFixedMainLoop"
    /\ pc' = "PostUpdate"
    /\ UNCHANGED <<bufVars, netVars, recvVars, snaps, steps, replays, snapped, tick, in_rollback,
                   worldVars, input_buffer, message_buffer, sent, send_log>>

\* PostUpdate: the sync snaps the tick and triggers TickEvent::TickSnap.
TickSnap(new_tick) ==
    /\ pc = "PostUpdate" /\ snaps < MaxSnaps /\ new_tick >= 0
    /\ receive_tick_events(tick, new_tick)
    /\ tick' = new_tick
    /\ snaps' = snaps + 1
    /\ snapped' = Append(snapped, new_tick - tick)
    /\ UNCHANGED <<bufVars, netVars, recvVars, pc, steps, replays, in_rollback, worldVars,
                   send_log>>

\* PostUpdate: the sync is done.
EndSync ==
    /\ pc = "PostUpdate"
    /\ pc' = "SendInputMessage"
    /\ UNCHANGED <<bufVars, netVars, recvVars, snaps, steps, replays, snapped, tick, in_rollback,
                   worldVars, input_buffer, message_buffer, sent, send_log>>

\* PostUpdate (InputSystemSet::SendInputMessage); the frame ends.
SendInputMessages(taken) ==
    /\ pc = "SendInputMessage"
    /\ send_input_messages(taken)
    /\ pc' = "PreUpdate"
    /\ steps' = 0 /\ replays' = 0 /\ snapped' = <<>>
    /\ UNCHANGED <<bufVars, netVars, recvVars, snaps, tick, in_rollback, worldVars, input_buffer>>

Next ==
    \/ \E e \in Entities : ReceiveConfirmation(e)
    \/ StartRollback
    \/ ReplayFixedStep
    \/ EndRollback
    \/ EndPreUpdate
    \/ StartFixedStep
    \/ \E state \in CaptureStates : BufferInputs(state)
    \/ \E order \in QueryOrders(InputBufferQuery) : FixedPostUpdate(order)
    \/ EndFixedMainLoop
    \/ \E d \in TickSnapDeltas : TickSnap(tick + d)
    \/ EndSync
    \/ \E taken \in [1..Len(message_buffer) -> BOOLEAN] : SendInputMessages(taken)

Spec == Init /\ [][Next]_vars

(***************************************************************************)
(* SpecRed: the client app with one controlled entity, the network, which  *)
(* loses or delivers every message sent, and the server, which merges the  *)
(* inputs of a delivered message into the entity's buffer.                 *)
(***************************************************************************)
\* Entity 2 is a replicated entity, controlled by the client.
WorldControlled ==
    [input_marker |-> (1 :> FALSE @@ 2 :> TRUE @@ 3 :> FALSE),
     pre_predicted |-> (1 :> FALSE @@ 2 :> FALSE @@ 3 :> FALSE),
     predicted |-> (1 :> None @@ 2 :> None @@ 3 :> None),
     confirmed |-> (1 :> None @@ 2 :> None @@ 3 :> None),
     remote_entity_map |-> (1 :> None @@ 2 :> Some(12) @@ 3 :> None),
     input_buffer |-> (1 :> None @@ 2 :> Some(InputBufferDefault) @@ 3 :> None)]

\* Entity 3, the predicted entity of the confirmed entity 2, is controlled.
WorldPredictedOnly ==
    [input_marker |-> (1 :> FALSE @@ 2 :> FALSE @@ 3 :> TRUE),
     pre_predicted |-> (1 :> FALSE @@ 2 :> FALSE @@ 3 :> FALSE),
     predicted |-> (1 :> None @@ 2 :> None @@ 3 :> Some(Some(2))),
     confirmed |-> (1 :> None @@ 2 :> Some(Some(3)) @@ 3 :> None),
     remote_entity_map |-> (1 :> None @@ 2 :> Some(12) @@ 3 :> None),
     input_buffer |-> (1 :> None @@ 2 :> None @@ 3 :> Some(InputBufferDefault))]

\* Entity 1 is pre-predicted, controlled and confirmed: the server spawned
\* its entity 11, which is replicated as the confirmed entity 2.
WorldPrePredicted ==
    [input_marker |-> (1 :> TRUE @@ 2 :> FALSE @@ 3 :> FALSE),
     pre_predicted |-> (1 :> TRUE @@ 2 :> FALSE @@ 3 :> FALSE),
     predicted |-> (1 :> Some(Some(2)) @@ 2 :> None @@ 3 :> None),
     confirmed |-> (1 :> None @@ 2 :> Some(Some(1)) @@ 3 :> None),
     remote_entity_map |-> (1 :> None @@ 2 :> Some(11) @@ 3 :> None),
     input_buffer |-> (1 :> Some(InputBufferDefault) @@ 2 :> None @@ 3 :> None)]

RedWorlds == {WorldControlled, WorldPredictedOnly, WorldPrePredicted}

\* The InputChannel sends every frame or every tick; the inputs are sent
\* once or twice, with or without an input delay of one tick.
RedConfigs ==
    {[input_send_interval |-> i, tick_duration |-> TickDuration,
      packet_redundancy |-> r, input_delay_ticks |-> d,
      lag_compensation |-> FALSE, rebroadcast_inputs |-> FALSE,
      input_channel |-> TRUE, overflow_checks |-> FALSE] :
        i \in {0, TickDuration}, r \in {1, 2}, d \in {0, 1}}

RedInit ==
    /\ BufIdle
    /\ NetIdle
    /\ RecvIdle
    /\ pc = "PreUpdate" /\ snaps = 0 /\ steps = 0 /\ replays = 0 /\ snapped = <<>>
    /\ tick = 0 /\ in_rollback = FALSE
    /\ cfg \in RedConfigs
    /\ \E w \in RedWorlds :
        /\ input_marker = w.input_marker
        /\ pre_predicted = w.pre_predicted
        /\ predicted = w.predicted
        /\ confirmed = w.confirmed
        /\ remote_entity_map = w.remote_entity_map
        /\ input_buffer = w.input_buffer
    /\ message_buffer = <<>>
    /\ sent = <<>>
    /\ send_log = <<>>

\* the server's entity of an InputTarget: an Entity is the server's own, a
\* PrePredictedEntity goes through the server's map of the client's
\* entities (the entity 10 + e was spawned for the client's e)
ServerEntity(target) ==
    IF target.kind = "Entity" THEN target.entity ELSE 10 + target.entity

\* the server merges the runs of a message that arrived into the buffers of
\* their entities, with update_from_message; a target it does not know is
\* dropped
RECURSIVE ServerApplies(_, _, _)
ServerApplies(bufs, end_tick, inputs) ==
    IF inputs = <<>> THEN bufs
    ELSE ServerApplies(
            IF ServerEntity(Head(inputs).target) \in RemoteEntities
                THEN [bufs EXCEPT ![ServerEntity(Head(inputs).target)] =
                        BufferUpdateFromMessage(@, end_tick, Head(inputs).states)]
                ELSE bufs,
            end_tick, Tail(inputs))

\* the server's buffers after the messages of q that arrive (arrives[i]
\* tells whether message i does)
RECURSIVE ServerReceives(_, _, _)
ServerReceives(bufs, q, arrives) ==
    IF q = <<>> THEN bufs
    ELSE ServerReceives(
            IF Head(arrives)
                THEN ServerApplies(bufs, Head(q).end_tick, Head(q).inputs)
                ELSE bufs,
            Tail(q), Tail(arrives))

\* the network loses or delivers each message of the latest send
Network(arrives) ==
    /\ pc = "PreUpdate" /\ sent # <<>>
    /\ server_buffer' = ServerReceives(server_buffer, sent, arrives)
    /\ outbound' = outbound \o
            [i \in 1..Len(sent) |-> [message |-> sent[i], delivered |-> arrives[i]]]
    /\ sent' = <<>>
    /\ UNCHANGED <<bufVars, recvVars, frameVars, worldVars, input_buffer, message_buffer,
                   send_log>>

RedNext ==
    \/ \E arrives \in [1..Len(sent) -> BOOLEAN] : Network(arrives)
    \/ (sent = <<>> /\ EndPreUpdate)
    \/ StartFixedStep
    \/ \E state \in CaptureStates : BufferInputs(state)
    \/ \E order \in QueryOrders(InputBufferQuery) : FixedPostUpdate(order)
    \/ EndFixedMainLoop
    \/ EndSync
    \/ SendInputMessages([i \in 1..Len(message_buffer) |-> TRUE])

SpecRed == RedInit /\ [][RedNext]_vars

(***************************************************************************)
(* SpecCfg: the frames of the client app with one controlled entity, under *)
(* configurations of every kind.                                           *)
(***************************************************************************)
\* a configuration with the given send interval, tick duration, redundancy,
\* registration of the InputChannel and overflow checks of the build
ConfigOf(interval, duration, redundancy, channel, checks) ==
    [input_send_interval |-> interval, tick_duration |-> duration,
     packet_redundancy |-> redundancy, input_delay_ticks |-> 0,
     lag_compensation |-> FALSE, rebroadcast_inputs |-> FALSE,
     input_channel |-> channel, overflow_checks |-> checks]

\* u16::MAX
U16Max == 65535

CfgSpace ==
    {ConfigOf(0, TickDuration, r, TRUE, k) : r \in {0, 1, 2}, k \in BOOLEAN}
    \cup {ConfigOf(TickDuration, TickDuration, r, TRUE, k) :
            r \in {1, 2}, k \in BOOLEAN}
    \cup {ConfigOf(0, TickDuration, 1, FALSE, FALSE),
          ConfigOf(0, 0, 1, TRUE, FALSE),
          ConfigOf(U16Max * 1000, 1000, 1, TRUE, FALSE)}
    \cup {ConfigOf(i * TickDuration, TickDuration, (U16 \div (i + 1)) + 1, TRUE, k) :
            i \in {1, 2}, k \in BOOLEAN}

CfgInit ==
    /\ BufIdle
    /\ NetIdle
    /\ RecvIdle
    /\ pc = "PreUpdate" /\ snaps = 0 /\ steps = 0 /\ replays = 0 /\ snapped = <<>>
    /\ tick = 0 /\ in_rollback = FALSE
    /\ cfg \in CfgSpace
    /\ input_marker = WorldControlled.input_marker
    /\ pre_predicted = WorldControlled.pre_predicted
    /\ predicted = WorldControlled.predicted
    /\ confirmed = WorldControlled.confirmed
    /\ remote_entity_map = WorldControlled.remote_entity_map
    /\ input_buffer = WorldControlled.input_buffer
    /\ message_buffer = <<>>
    /\ sent = <<>>
    /\ send_log = <<>>

CfgNext ==
    \/ EndPreUpdate
    \/ StartFixedStep
    \/ \E state \in CaptureStates : BufferInputs(state)
    \/ \E order \in QueryOrders(InputBufferQuery) : FixedPostUpdate(order)
    \/ EndFixedMainLoop
    \/ \E d \in TickSnapDeltas : TickSnap(tick + d)
    \/ EndSync
    \/ \E taken \in [1..Len(message_buffer) -> BOOLEAN] : SendInputMessages(taken)

SpecCfg == CfgInit /\ [][CfgNext]_vars

(***************************************************************************)
(* SpecRecv: the reception of the inputs of remote players, which the      *)
(* server rebroadcasts.  Messages arrive in the events in any order;       *)
(* receive_remote_player_input_messages drains them in RunFixedMainLoop,   *)
(* before the fixed steps, in which the local inputs are captured.         *)
(***************************************************************************)
\* remote_entity_map.get_local(r)
GetLocal(r) ==
    IF \E e \in Entities : remote_entity_map[e] = Some(r)
        THEN Some(CHOOSE e \in Entities : remote_entity_map[e] = Some(r))
        ELSE None

\* the local entity of an InputTarget: an Entity goes through the entity
\* map, a PrePredictedEntity was mapped when the message was deserialized
TargetEntity(target) ==
    IF target.kind = "Entity" THEN GetLocal(target.entity)
    ELSE Some(target.entity)

\* confirmed_query.get(entity): Query<&Confirmed, Without<InputMarker<A>>>
ConfirmedQueryGet(e) ==
    IF confirmed[e] # None /\ ~input_marker[e] THEN confirmed[e] ELSE None

\* a query for the predicted entities, controlled or not
PredictedQueryAny(p) == predicted[p] # None

\* predicted_query matches p: (With<Predicted>, Without<InputMarker<A>>)
PredictedQueryHas(p) == predicted[p] # None /\ ~input_marker[p]

UnrecognizedTarget == "received remote player input message for unrecognized entity"
UnrecognizedEntity == "received input message for unrecognized entity"

\* a loop body that applies the inputs to the entity the target resolves
\* to, the confirmed entity
ReceiveTargetDataConfirmed(st, end_tick, target_data) ==
    LET entity == TargetEntity(target_data.target) IN
    IF entity = None
        THEN [st EXCEPT !.errors = Append(@, UnrecognizedTarget)]
    ELSE IF ConfirmedQueryGet(Unwrap(entity)) = None
        THEN [st EXCEPT !.errors = Append(@, UnrecognizedEntity)]
    ELSE IF st.buffers[Unwrap(entity)] # None
        THEN [st EXCEPT !.buffers[Unwrap(entity)] =
                Some(BufferUpdateFromMessage(Unwrap(@), end_tick, target_data.states))]
    ELSE [st EXCEPT !.commands = Append(@,
            [entity |-> Unwrap(entity),
             input_buffer |-> BufferUpdateFromMessage(InputBufferDefault, end_tick,
                                                      target_data.states),
             action_state |-> DefaultActionState])]

\* the body of the loop over message.inputs.  st holds the buffers as the
\* queries see them, the commands queued (applied after the system) and
\* the errors logged.
ReceiveTargetData(st, end_tick, target_data) ==
    LET entity == TargetEntity(target_data.target) IN
    IF entity = None
        THEN [st EXCEPT !.errors = Append(@, UnrecognizedTarget)]
    ELSE LET c == ConfirmedQueryGet(Unwrap(entity)) IN
    IF c = None
        THEN [st EXCEPT !.errors = Append(@, UnrecognizedEntity)]
    ELSE IF Unwrap(c) = None THEN st
    ELSE LET p == Unwrap(Unwrap(c)) IN
    IF ~PredictedQueryHas(p) THEN st
    ELSE IF st.buffers[p] # None
        THEN [st EXCEPT !.buffers[p] =
                Some(BufferUpdateFromMessage(Unwrap(@), end_tick, target_data.states))]
    ELSE [st EXCEPT !.commands = Append(@,
            [entity |-> p,
             input_buffer |-> BufferUpdateFromMessage(InputBufferDefault, end_tick,
                                                      target_data.states),
             action_state |-> DefaultActionState])]

\* a loop that gives the message up at its first error
RECURSIVE ReceiveInputsUntilError(_, _, _)
ReceiveInputsUntilError(st, end_tick, inputs) ==
    IF inputs = <<>> THEN st
    ELSE LET next == ReceiveTargetData(st, end_tick, Head(inputs)) IN
         IF next.errors # st.errors THEN next
         ELSE ReceiveInputsUntilError(next, end_tick, Tail(inputs))

\* for target_data in &message.inputs
RECURSIVE ReceiveInputs(_, _, _)
ReceiveInputs(st, end_tick, inputs) ==
    IF inputs = <<>> THEN st
    ELSE ReceiveInputs(ReceiveTargetData(st, end_tick, Head(inputs)),
                       end_tick, Tail(inputs))

\* received_inputs.drain().for_each
RECURSIVE ReceiveEvents(_, _)
ReceiveEvents(st, events) ==
    IF events = <<>> THEN st
    ELSE ReceiveEvents(ReceiveInputs(st, Head(events).end_tick, Head(events).inputs),
                       Tail(events))

\* the commands applied in their order: insert((input_buffer, action_state))
\* replaces the components the entity has
RECURSIVE ApplyCommands(_, _)
ApplyCommands(world, commands) ==
    IF commands = <<>> THEN world
    ELSE ApplyCommands(
            [input_buffer |-> [world.input_buffer EXCEPT
                                ![Head(commands).entity] = Some(Head(commands).input_buffer)],
             action_state |-> [world.action_state EXCEPT
                                ![Head(commands).entity] = Some(Head(commands).action_state)]],
            Tail(commands))

\* the world after the system has run on the events and its commands were
\* applied
ReceiveOutcome(events) ==
    LET st == ReceiveEvents([buffers |-> input_buffer, commands |-> <<>>,
                             errors |-> <<>>], events)
        world == ApplyCommands([input_buffer |-> st.buffers,
                                action_state |-> action_state], st.commands)
    IN [input_buffer |-> world.input_buffer,
        action_state |-> world.action_state,
        errors |-> st.errors]

receive_remote_player_input_messages ==
    /\ input_buffer' = ReceiveOutcome(received_inputs).input_buffer
    /\ action_state' = ReceiveOutcome(received_inputs).action_state
    /\ error_log' = ReceiveOutcome(received_inputs).errors
    /\ received_inputs' = <<>>

\* The confirmed entity 2 of a remote player is in the entity map, its
\* predicted entity 3 has no InputBuffer yet; entity 1 is not replicated.
WorldRemote ==
    [input_marker |-> (1 :> FALSE @@ 2 :> FALSE @@ 3 :> FALSE),
     pre_predicted |-> (1 :> FALSE @@ 2 :> FALSE @@ 3 :> FALSE),
     predicted |-> (1 :> None @@ 2 :> None @@ 3 :> Some(Some(2))),
     confirmed |-> (1 :> None @@ 2 :> Some(Some(3)) @@ 3 :> None),
     remote_entity_map |-> (1 :> None @@ 2 :> Some(12) @@ 3 :> None),
     input_buffer |-> NoEntity]

RecvWorlds == {WorldRemote, WorldIdle, WorldBoth, WorldUnresolved, WorldPredictedOnly}

RecvConfig ==
    [input_send_interval |-> 0, tick_duration |-> TickDuration,
     packet_redundancy |-> 2, input_delay_ticks |-> 0,
     lag_compensation |-> FALSE, rebroadcast_inputs |-> TRUE,
     input_channel |-> TRUE, overflow_checks |-> FALSE]

\* the inputs of the other clients are rebroadcast, or are not
RecvConfigs == {[RecvConfig EXCEPT !.rebroadcast_inputs = r] : r \in BOOLEAN}

\* the messages the server rebroadcasts: the remote entity 12, the remote
\* entity 13, which the entity map does not hold, or the entity 2 by its
\* local id; a run of one or two states, of one length in a message (the
\* sender takes num_tick states for every entity)
InboundTargets ==
    {EntityTarget(12), EntityTarget(13), PrePredictedEntityTarget(2)}

InboundRuns == {<<"a">>, <<"b", "a">>}

InboundData == [target : InboundTargets, states : InboundRuns]

InboundMessages ==
    {[end_tick |-> t, inputs |-> i, interpolation_delay |-> None] :
        t \in 1..MaxRecvTick,
        i \in {<<>>} \cup {<<d>> : d \in InboundData}
              \cup {s \in {<<d, e>> : d \in InboundData, e \in InboundData} :
                        Len(s[1].states) = Len(s[2].states)}}

RecvInit ==
    /\ BufIdle
    /\ NetIdle
    /\ pc = "PreUpdate" /\ snaps = 0 /\ steps = 0 /\ replays = 0 /\ snapped = <<>>
    /\ tick = 0 /\ in_rollback = FALSE
    /\ cfg \in RecvConfigs
    /\ \E w \in RecvWorlds :
        /\ input_marker = w.input_marker
        /\ pre_predicted = w.pre_predicted
        /\ predicted = w.predicted
        /\ confirmed = w.confirmed
        /\ remote_entity_map = w.remote_entity_map
        /\ input_buffer = w.input_buffer
        /\ action_state = [e \in Entities |->
                IF w.input_buffer[e] # None THEN Some(DefaultActionState) ELSE None]
    /\ message_buffer = <<>>
    /\ sent = <<>>
    /\ send_log = <<>>
    /\ received_inputs = <<>>
    /\ error_log = <<>>

\* a rebroadcast message arrives
Arrive(message) ==
    /\ Len(received_inputs) < MaxInbound
    /\ received_inputs' = Append(received_inputs, message)
    /\ error_log' = <<>>
    /\ UNCHANGED <<bufVars, netVars, appVars, action_state>>

\* a plugin that adds the system whatever the configuration
ReceivesAlways == TRUE

\* if self.config.rebroadcast_inputs: the system is added to the app
ReceiveRunCondition == cfg.rebroadcast_inputs

\* RunFixedMainLoop, InputSystemSet::ReceiveInputMessages
ReceiveInputMessages ==
    /\ ReceiveRunCondition
    /\ receive_remote_player_input_messages
    /\ UNCHANGED <<bufVars, netVars, frameVars, worldVars, message_buffer, sent, send_log>>

\* a fixed step after the reception of the frame: the tick advances and the
\* ActionState of every controlled entity (the same input here) is written
\* to its buffer at the delayed tick.  With the reception in the app, the
\* messages that arrived were drained before the fixed steps.
Capture(state) ==
    /\ tick < MaxRecvTick
    /\ ReceiveRunCondition => received_inputs = <<>>
    /\ tick' = tick + 1
    /\ input_buffer' = [e \in Entities |->
            IF e \in InputBufferQuery
                THEN Some(BufferSet(Unwrap(input_buffer[e]),
                                    tick + 1 + cfg.input_delay_ticks, state))
                ELSE input_buffer[e]]
    /\ UNCHANGED <<bufVars, netVars, recvVars, pc, snaps, steps, replays, snapped,
                   in_rollback, worldVars, message_buffer, sent, send_log>>

RecvNext ==
    \/ \E message \in InboundMessages : Arrive(message)
    \/ ReceiveInputMessages
    \/ \E state \in CaptureStates : Capture(state)

SpecRecv == RecvInit /\ [][RecvNext]_vars

(***************************************************************************)
(* Properties of the input buffer                                          *)
(***************************************************************************)
\* the ticks at or before T at which a state was written
WrittenUpTo(T) == {t \in BufTicks : t <= T /\ IsSome(written[t])}

SetMax(S) == CHOOSE x \in S : \A y \in S : y <= x

\* C1 (fill-forward law): after any sequence of writes, for every tick T at
\* or after start_tick the read of T succeeds and returns the state most
\* recently written at the greatest written tick at or before T.
C1_FillForwardLaw ==
    IsSome(b.start_tick) =>
        \A T \in Unwrap(b.start_tick)..(MaxBufTick + 1) :
            /\ WrittenUpTo(T) # {}
            /\ BufferGet(b, T) =
                 [kind |-> "ok", value |-> Unwrap(written[SetMax(WrittenUpTo(T))])]

\* the case of C1: write(t, a), write(t + 2, b) with tick t + 1 never
\* written; the reads of t + 1 and of t + 3 give a and b.
C1_Witness ==
    /\ IsSome(b.start_tick)
    /\ \E t \in BufTicks :
        /\ t >= Unwrap(b.start_tick) /\ t + 2 \in BufTicks
        /\ written[t] = Some("a") /\ written[t + 1] = None
        /\ written[t + 2] = Some("b")
        /\ \A u \in BufTicks : u > t + 2 => written[u] = None
        /\ BufferGet(b, t + 1).value = "a"
        /\ BufferGet(b, t + 3).value = "b"

\* C2 (no-regression law): update_from_message never changes the state read
\* at a tick the buffer already held (an entry at least as recent as the
\* incoming one); on an equal tick the existing state is kept.  A tick that
\* the update pushed out of the horizon no longer reads any state.
C2_NoRegression ==
    [][lastop'.kind = "update" =>
        \A T \in BufTicks :
            (/\ IsSome(b.start_tick)
             /\ T >= Unwrap(b.start_tick) /\ T <= BufferEndTick(b)
             /\ BufferGet(b', T).kind = "ok")
            => BufferGet(b', T) = BufferGet(b, T)]_vars

\* the case of C2: an update whose run overlapped ticks the buffer held and
\* also brought ticks beyond them.
C2_Witness ==
    /\ lastop.kind = "update" /\ lastop.kept > 0 /\ lastop.added > 0
    /\ \E t \in BufTicks : IsSome(written[t]) /\ Unwrap(written[t]) = "b"

(***************************************************************************)
(* Properties of the client app                                            *)
(***************************************************************************)
Last(q) == q[Len(q)]

\* the step appends one message to the MessageBuffer
Assembles == Len(message_buffer') = Len(message_buffer) + 1

\* the entities that are locally controlled
Controlled == {e \in Entities : input_marker[e] /\ IsSome(input_buffer[e])}

\* section 4.3 of the design: the target of a controlled entity resolves if
\* it is pre-predicted and has its Predicted, or if it is not pre-predicted
\* and its confirmed counterpart (itself without Predicted, else the
\* confirmed entity of its Predicted) is known and in the entity map.
Counterpart(e) == IF predicted[e] = None THEN <<e>> ELSE predicted[e][1]

Resolves(e) ==
    IF pre_predicted[e] THEN predicted[e] # None
    ELSE /\ Counterpart(e) # <<>>
         /\ remote_entity_map[Counterpart(e)[1]] # <<>>

\* the run of n states that ends at end_tick, read from the buffer of e
RunOf(e, end_tick, n) ==
    [i \in 1..n |-> StateForMessage(input_buffer[e][1], end_tick - n + i)]

\* C4 (resync shift): on a TickSnap from old_tick (the tick) to new_tick
\* (the tick after it), forwards or backwards, every input buffer with a
\* start_tick has it moved by new_tick - old_tick, and so has the end_tick
\* of every message in the MessageBuffer.
C4_ResyncShift ==
    [][(pc = "PostUpdate" /\ tick' # tick) =>
        /\ \A e \in Entities :
            (input_buffer[e] # <<>> /\ input_buffer[e][1].start_tick # <<>>) =>
                /\ input_buffer'[e] # <<>>
                /\ input_buffer'[e][1].start_tick =
                     <<input_buffer[e][1].start_tick[1] + (tick' - tick)>>
        /\ Len(message_buffer') = Len(message_buffer)
        /\ \A i \in 1..Len(message_buffer) :
            message_buffer'[i].end_tick =
                message_buffer[i].end_tick + (tick' - tick)]_vars

\* the case of C4: the tick snapped backwards while a message was queued
\* and a buffer had its start_tick; the message is still labelled with the
\* delayed tick of the corrected clock.
C4_Witness ==
    /\ Len(snapped) = 1 /\ snapped[1] < 0
    /\ message_buffer # <<>>
    /\ Last(message_buffer).end_tick = tick + cfg.input_delay_ticks
    /\ \E e \in Entities :
        input_buffer[e] # <<>> /\ input_buffer[e][1].start_tick # <<>>

\* C5: no message, queued or sent, has an entry PrePredictedEntity(e) unless
\* e had its Predicted when the message was assembled; a pre-predicted
\* entity without Predicted has no entry of any kind (nor under its remote
\* entity).
C5_PrePredictedNotSent ==
    \A i \in 1..Len(message_buffer \o sent) :
        LET m == (message_buffer \o sent)[i] IN
        \A k \in 1..Len(m.inputs) :
            /\ m.inputs[k].target.kind = "PrePredictedEntity" =>
                    predicted[m.inputs[k].target.entity] # <<>>
            /\ \A e \in Entities :
                (pre_predicted[e] /\ predicted[e] = <<>>) =>
                    /\ m.inputs[k].target.entity # e
                    /\ remote_entity_map[e] # <<>> =>
                        m.inputs[k].target.entity # remote_entity_map[e][1]

\* the case of C5: messages were assembled and sent while a controlled
\* pre-predicted entity, with buffered inputs and a remote counterpart,
\* had no Predicted yet.
C5_Witness ==
    /\ message_buffer # <<>> /\ sent # <<>>
    /\ \E e \in Entities :
        /\ pre_predicted[e] /\ input_marker[e] /\ predicted[e] = <<>>
        /\ remote_entity_map[e] # <<>>
        /\ input_buffer[e] # <<>> /\ input_buffer[e][1].start_tick # <<>>

\* C6: once a controlled pre-predicted entity has its Predicted, every
\* message assembled carries an entry PrePredictedEntity(e) for it, with
\* the run of its buffer.
C6_PrePredictedSent ==
    [][Assembles =>
        \A e \in Controlled :
            (pre_predicted[e] /\ predicted[e] # <<>>) =>
                \E k \in 1..Len(Last(message_buffer').inputs) :
                    LET entry == Last(message_buffer').inputs[k] IN
                    /\ entry.target = [kind |-> "PrePredictedEntity", entity |-> e]
                    /\ entry.states =
                         RunOf(e, Last(message_buffer').end_tick, Len(entry.states))]_vars

\* the case of C6: a queued message carries the inputs of the pre-predicted
\* entity 1, the message before it, assembled before the confirmation
\* could not.
C6_Witness ==
    /\ pre_predicted[1] /\ input_marker[1] /\ predicted[1] # <<>>
    /\ \E i \in 1..Len(message_buffer) :
        \E k \in 1..Len(message_buffer[i].inputs) :
            /\ message_buffer[i].inputs[k].target.kind = "PrePredictedEntity"
            /\ message_buffer[i].inputs[k].target.entity = 1
            /\ \E j \in 1..Len(message_buffer[i].inputs[k].states) :
                message_buffer[i].inputs[k].states[j] = "a"

\* C7: every run of prepare_input_message (FixedPostUpdate outside of a
\* rollback) appends exactly one message; with no controlled entity, or
\* none that resolves, the message has no inputs.
C7_AlwaysOneMessage ==
    [][(pc = "FixedPostUpdate" /\ ~in_rollback /\ pc' # pc) =>
        /\ Assembles
        /\ SubSeq(message_buffer', 1, Len(message_buffer)) = message_buffer
        /\ (\A e \in Controlled : ~Resolves(e)) =>
                Last(message_buffer').inputs = <<>>]_vars

\* the case of C7: a message without inputs is queued although entities are
\* controlled.
C7_Witness ==
    /\ Controlled # {}
    /\ \A e \in Controlled : ~Resolves(e)
    /\ \E i \in 1..Len(message_buffer) : message_buffer[i].inputs = <<>>

\* C8: while a rollback is active no message is appended to the
\* MessageBuffer.
C8_NoAssemblyInRollback ==
    [][in_rollback => message_buffer' = message_buffer]_vars

\* the case of C8: a fixed step was replayed, FixedPostUpdate included, and
\* the rollback is still active.
C8_Witness ==
    /\ in_rollback /\ replays > 0 /\ pc = "Rollback"
    /\ Controlled # {}

\* C9 as claimed: every frame assembles exactly one message before the
\* send, and the MessageBuffer is empty between the frames.
C9_OneMessageEachFrame ==
    /\ pc = "SendInputMessage" => Len(message_buffer) = 1
    /\ pc = "PreUpdate" => message_buffer = <<>>

\* C9 as amended: the MessageBuffer holds one message for each fixed step
\* run in this frame (none, one or several), the send drains it, and it is
\* empty between the frames and during a rollback.
C9_QueueLifecycle ==
    /\ Len(message_buffer) =
         IF pc \in {"FixedPreUpdate", "FixedPostUpdate"} /\ ~in_rollback
            THEN steps - 1 ELSE steps
    /\ pc \in {"PreUpdate", "Rollback"} => message_buffer = <<>>

\* the case of C9: a frame that assembled two messages is over, both were
\* sent and the MessageBuffer is empty.
C9_Witness ==
    /\ pc = "PreUpdate" /\ Len(sent) = 2 /\ message_buffer = <<>>

\* C10 (addressing): every controlled entity that is not pre-predicted has,
\* in each message assembled, an entry Entity(remote) with the run of its
\* buffer, remote being the entity map's image of its confirmed counterpart;
\* if the counterpart is unknown or not in the map it has no entry, and the
\* message is assembled all the same.
C10_Addressing ==
    [][(pc = "FixedPostUpdate" /\ ~in_rollback /\ pc' # pc) =>
        /\ Assembles
        /\ Len(Last(message_buffer').inputs) =
             Cardinality({e \in Controlled : Resolves(e)})
        /\ \A e \in Controlled :
            (~pre_predicted[e] /\ Resolves(e)) =>
                \E k \in 1..Len(Last(message_buffer').inputs) :
                    LET entry == Last(message_buffer').inputs[k] IN
                    /\ entry.target =
                         [kind |-> "Entity",
                          entity |-> remote_entity_map[Counterpart(e)[1]][1]]
                    /\ entry.states =
                         RunOf(e, Last(message_buffer').end_tick, Len(entry.states))]_vars

\* the case of C10: the predicted entity 3 is controlled, its confirmed
\* entity 2 is not; the message addresses the remote entity of entity 2.
C10_Witness ==
    /\ input_marker[3] /\ ~input_marker[2]
    /\ predicted[3] = <<<<2>>>> /\ remote_entity_map[2] = <<12>>
    /\ remote_entity_map[3] = <<>>
    /\ \E i \in 1..Len(message_buffer) :
        \E k \in 1..Len(message_buffer[i].inputs) :
            /\ message_buffer[i].inputs[k].target = [kind |-> "Entity", entity |-> 12]
            /\ \E j \in 1..Len(message_buffer[i].inputs[k].states) :
                message_buffer[i].inputs[k].states[j] = "a"

(***************************************************************************)
(* Properties of the redundancy                                            *)
(***************************************************************************)
\* the server's entity of the controlled entity e
RemoteOf(e) ==
    IF pre_predicted[e] THEN 10 + e
    ELSE Unwrap(remote_entity_map[Unwrap(Counterpart(e))])

\* the server's buffer of the one controlled entity
ControlledServerBuffer ==
    server_buffer[RemoteOf(CHOOSE e \in Controlled : TRUE)]

\* C3 (redundancy): of any packet_redundancy consecutive messages of the
\* controlled entity, let exactly one arrive, and nothing after them: the
\* server's buffer then reads a state at the tick of each of these messages,
\* and up to the tick of the message that arrived it reads the very state
\* the lost message carried for its tick.
C3_Redundancy ==
    \A i \in 1..(Len(outbound) - cfg.packet_redundancy + 1) :
        LET window == i..(i + cfg.packet_redundancy - 1)
            arrived == {j \in window : outbound[j].delivered}
        IN (/\ Cardinality(arrived) = 1
            /\ \A k \in (i + cfg.packet_redundancy)..Len(outbound) :
                    ~outbound[k].delivered)
           => \A j \in arrived : \A w \in window :
                LET T == outbound[w].message.end_tick IN
                /\ BufferGet(ControlledServerBuffer, T).kind = "ok"
                /\ T <= outbound[j].message.end_tick =>
                        BufferGet(ControlledServerBuffer, T).value =
                            Last(outbound[w].message.inputs[1].states)

\* the case of C3: with a redundancy of 2 the first message, with input a,
\* is lost and the second, with no input, arrives; the server reads a at the
\* tick of the first.
C3_Witness ==
    /\ cfg.packet_redundancy = 2 /\ Len(outbound) = 2
    /\ ~outbound[1].delivered /\ outbound[2].delivered
    /\ Last(outbound[1].message.inputs[1].states) = "a"
    /\ Last(outbound[2].message.inputs[1].states) = "none"
    /\ BufferGet(ControlledServerBuffer, outbound[1].message.end_tick) =
            [kind |-> "ok", value |-> "a"]
    /\ BufferGet(ControlledServerBuffer, outbound[2].message.end_tick) =
            [kind |-> "ok", value |-> "none"]

(***************************************************************************)
(* Properties of the reception                                             *)
(***************************************************************************)
\* the target of the entry resolves to no local entity
Unresolved(target_data) == TargetEntity(target_data.target) = None

\* the messages without their entries that resolve to no local entity
WithoutUnresolved(events) ==
    [i \in 1..Len(events) |->
        [events[i] EXCEPT !.inputs = SelectSeq(@, LAMBDA d : ~Unresolved(d))]]

RECURSIVE CountUnresolved(_)
CountUnresolved(events) ==
    IF events = <<>> THEN 0
    ELSE Len(SelectSeq(Head(events).inputs, Unresolved))
         + CountUnresolved(Tail(events))

\* C11: a reception leaves the buffers and the action states as the
\* reception of the same messages without their entries that resolve to no
\* local entity does; each of these entries is logged as an error; messages
\* with no other entry leave every buffer as it is.
C11_UnresolvedEntryDropped ==
    [][received_inputs' = <<>> /\ received_inputs # <<>> =>
        /\ input_buffer' = ReceiveOutcome(WithoutUnresolved(received_inputs)).input_buffer
        /\ action_state' = ReceiveOutcome(WithoutUnresolved(received_inputs)).action_state
        /\ Len(SelectSeq(error_log', LAMBDA x : x = UnrecognizedTarget))
             = CountUnresolved(received_inputs)
        /\ (\A i \in 1..Len(received_inputs) :
                \A k \in 1..Len(received_inputs[i].inputs) :
                    Unresolved(received_inputs[i].inputs[k]))
            => input_buffer' = input_buffer]_vars

\* the case of C11: an entry that resolves to no local entity was logged
\* and the entry after it, of the same message, is in the buffer of the
\* predicted entity 3.
C11_Witness ==
    /\ received_inputs = <<>>
    /\ error_log = <<UnrecognizedTarget>>
    /\ input_buffer[3] = Some([start_tick |-> Some(1), buffer |-> <<"b", "a">>])

\* the predicted entity whose buffer takes the entry, if any
PredictedTarget(target_data) ==
    LET entity == TargetEntity(target_data.target) IN
    IF entity = None THEN None
    ELSE IF ConfirmedQueryGet(Unwrap(entity)) = None THEN None
    ELSE IF Unwrap(ConfirmedQueryGet(Unwrap(entity))) = None THEN None
    ELSE IF ~PredictedQueryHas(Unwrap(Unwrap(ConfirmedQueryGet(Unwrap(entity)))))
        THEN None
    ELSE Unwrap(ConfirmedQueryGet(Unwrap(entity)))

\* the entries of the events, each with the end_tick of its message
EntriesOf(events) ==
    {x \in [end_tick : 1..MaxRecvTick, data : InboundData,
            message : 1..Len(events), index : 1..2] :
        /\ x.index <= Len(events[x.message].inputs)
        /\ x.data = events[x.message].inputs[x.index]
        /\ x.end_tick = events[x.message].end_tick}

\* the entries for a predicted entity that has no InputBuffer
FirstContacts(events) ==
    {x \in EntriesOf(events) :
        /\ PredictedTarget(x.data) # None
        /\ input_buffer[Unwrap(PredictedTarget(x.data))] = None}

\* C12 (first contact): after a reception, for every entry received for a
\* predicted entity that had no InputBuffer, the entity has an InputBuffer
\* and the default ActionState, the buffer reads a state at every tick of
\* the entry's run, and when it is the only such entry for the entity the
\* buffer is update_from_message(end_tick, states) of the empty buffer.
C12_FirstContact ==
    [][received_inputs' = <<>> =>
        \A x \in FirstContacts(received_inputs) :
            LET p == Unwrap(PredictedTarget(x.data)) IN
            /\ input_buffer'[p] # None
            /\ action_state'[p] = Some(DefaultActionState)
            /\ \A t \in (x.end_tick - Len(x.data.states) + 1)..x.end_tick :
                BufferGet(Unwrap(input_buffer'[p]), t).kind = "ok"
            /\ (\A y \in FirstContacts(received_inputs) :
                    PredictedTarget(y.data) = PredictedTarget(x.data) => y = x)
                => input_buffer'[p] =
                     Some(BufferUpdateFromMessage(InputBufferDefault, x.end_tick,
                                                  x.data.states))]_vars

\* C12 for the first contacts that are alone: an entity with a single entry
\* in the messages of a reception.
C12_SingleFirstContact ==
    [][received_inputs' = <<>> =>
        \A x \in FirstContacts(received_inputs) :
            LET p == Unwrap(PredictedTarget(x.data)) IN
            (\A y \in FirstContacts(received_inputs) :
                    PredictedTarget(y.data) = PredictedTarget(x.data) => y = x)
            => /\ action_state'[p] = Some(DefaultActionState)
               /\ input_buffer'[p] =
                     Some(BufferUpdateFromMessage(InputBufferDefault, x.end_tick,
                                                  x.data.states))]_vars

(***************************************************************************)
(* Properties of the configuration                                         *)
(***************************************************************************)
\* C13: no operation ends the process: whatever the send interval, the tick
\* duration, the redundancy and the registration of the channel, the app
\* never panics.
C13_NeverFatal == pc # "Panicked"

(***************************************************************************)
(* Properties of the horizon of the input buffer                           *)
(***************************************************************************)
\* C14 (expired history): the read of a tick before the start_tick of the
\* buffer fails as expired, it gives no filled-forward state, and the
\* buffer is as before.
C14_ExpiredHistory ==
    [][(/\ lastop'.kind = "read"
        /\ IsSome(b.start_tick)
        /\ lastop'.tick < Unwrap(b.start_tick))
        => /\ lastop'.result.kind = "expired"
           /\ b' = b]_vars

\* the case of C14: a tick that was written, and then evicted, is read.
C14_Witness ==
    /\ lastop.kind = "read"
    /\ IsSome(b.start_tick) /\ lastop.tick < Unwrap(b.start_tick)
    /\ IsSome(written[lastop.tick])
    /\ lastop.result.kind = "expired"

\* the ticks a buffer holds
BufferLen(buf) == Len(buf.buffer)

\* C15 (bounded horizon): a buffer never holds more than Horizon entries;
\* a write or an update that takes the buffer beyond Horizon entries evicts
\* the oldest ones, and start_tick advances by the number of the evicted
\* entries, the entries in excess of Horizon.
C15_BoundedHorizon ==
    [][(lastop'.kind \in {"write", "update"} /\ IsSome(b.start_tick))
        => /\ BufferLen(b') <= Horizon
           /\ BufferEndTick(b') >= BufferEndTick(b)
           /\ LET excess == (BufferEndTick(b') - Unwrap(b.start_tick) + 1) - Horizon
              IN Unwrap(b'.start_tick) - Unwrap(b.start_tick)
                   = IF excess > 0 THEN excess ELSE 0]_vars

\* the case of C15: a single write evicted two entries; the buffer is full
\* and the first tick written is expired.
C15_Witness ==
    /\ lastop.kind = "write"
    /\ BufferLen(b) = Horizon
    /\ IsSome(written[0]) /\ IsSome(written[1]) /\ written[2] = None
    /\ b.start_tick = Some(2)

(***************************************************************************)
(* Properties of the transmission                                          *)
(***************************************************************************)
\* C16 (transmission failure): the send calls send_message once for every
\* message of the MessageBuffer, in their order, whether an earlier call
\* failed or not; the channel has the messages it took and no other; the
\* MessageBuffer is empty afterwards, so a message the channel did not take
\* is neither queued again nor sent again.
C16_TransmissionFailure ==
    [][(pc = "SendInputMessage" /\ pc' # pc) =>
        /\ message_buffer' = <<>>
        /\ Len(send_log') = Len(message_buffer)
        /\ \A i \in 1..Len(message_buffer) :
            send_log'[i].message = Outgoing(message_buffer[i])
        /\ sent' = [i \in 1..Len(SelectSeq(send_log', LAMBDA a : a.ok)) |->
                        SelectSeq(send_log', LAMBDA a : a.ok)[i].message]]_vars

\* the case of C16: of two messages the channel rejected the first and took
\* the second; the MessageBuffer is empty.
C16_Witness ==
    /\ pc = "PreUpdate" /\ message_buffer = <<>>
    /\ Len(send_log) = 2 /\ ~send_log[1].ok /\ send_log[2].ok
    /\ sent = <<send_log[2].message>>
    /\ send_log[1].message # send_log[2].message

WindowSize ==
    ((cfg.input_send_interval \div cfg.tick_duration) + 1) * cfg.packet_redundancy

\* C18 (message window): the message assembled at tick t with the input
\* delay d ends at t + d; each of its entries carries exactly num_tick
\* states; the entry of a controlled entity carries, oldest first, the
\* states of the ticks end_tick - num_tick + 1 .. end_tick of the buffer of
\* that entity.
C18_MessageWindow ==
    [][(pc = "FixedPostUpdate" /\ ~in_rollback /\ pc' # pc) =>
        LET message == Last(message_buffer') IN
        /\ message.end_tick = tick + cfg.input_delay_ticks
        /\ \A k \in 1..Len(message.inputs) :
            Len(message.inputs[k].states) = WindowSize
        /\ \A e \in Controlled :
            Resolves(e) =>
                \E k \in 1..Len(message.inputs) :
                    /\ message.inputs[k].target.entity =
                         IF pre_predicted[e] THEN e ELSE RemoteOf(e)
                    /\ message.inputs[k].states =
                         [i \in 1..WindowSize |->
                            StateForMessage(Unwrap(input_buffer[e]),
                                            message.end_tick - WindowSize + i)]]_vars

\* the case of C18: with a send interval of one tick, a redundancy of 2 and
\* a delay of one tick, the message of tick 3 ends at tick 4 and carries
\* the states of the ticks 1 to 4; tick 1 is before the first input.
C18_Witness ==
    /\ cfg.input_delay_ticks = 1 /\ cfg.packet_redundancy = 2
    /\ tick = 3 /\ message_buffer # <<>>
    /\ Last(message_buffer).end_tick = 4
    /\ \E k \in 1..Len(Last(message_buffer).inputs) :
        /\ Len(Last(message_buffer).inputs[k].states) = 4
        /\ Last(message_buffer).inputs[k].states[1] = "none"
        /\ Last(message_buffer).inputs[k].states[3] = "a"
        /\ Last(message_buffer).inputs[k].states[4] = "none"

\* C19 (redundancy window size): under every configuration, every entry of
\* every message assembled carries (send interval / tick duration + 1) *
\* packet redundancy states: the product as an integer, not wrapped to 16
\* bits.
C19_NumTickExact ==
    [][(pc = "FixedPostUpdate" /\ pc' = "RunFixedMainLoop") =>
        \A k \in 1..Len(Last(message_buffer').inputs) :
            Len(Last(message_buffer').inputs[k].states) = WindowSize]_vars

(***************************************************************************)
(* Properties of the order of resync and transmission                      *)
(***************************************************************************)
RECURSIVE Sum(_)
Sum(q) == IF q = <<>> THEN 0 ELSE Head(q) + Sum(Tail(q))

\* the tick at which message i of the MessageBuffer was assembled: the
\* frame ran `steps` fixed steps, one message each, and then the TickSnaps
\* of `snapped`
AssemblyTick(i) == tick - Sum(snapped) - (steps - i)

\* C20 (resync precedes transmission): every message handed to the channel
\* carries as end_tick its assembly tick plus the input delay plus the sum
\* of new_tick - old_tick over the TickSnaps between its assembly and the
\* send; none is sent with the end_tick it had before a TickSnap of the
\* frame.
C20_ResyncBeforeSend ==
    [][(pc = "SendInputMessage" /\ pc' # pc) =>
        /\ Len(send_log') = steps
        /\ \A i \in 1..Len(send_log') :
            send_log'[i].message.end_tick =
                AssemblyTick(i) + cfg.input_delay_ticks + Sum(snapped)]_vars

\* the case of C20: the two messages assembled at the ticks 1 and 2 of the
\* first frame were sent after a TickSnap from tick 2 to tick 4, with the
\* end ticks 3 and 4.
C20_Witness ==
    /\ pc = "PreUpdate" /\ tick = 4 /\ snaps = 1
    /\ cfg.input_delay_ticks = 0
    /\ Len(send_log) = 2
    /\ send_log[1].message.end_tick = 3 /\ send_log[2].message.end_tick = 4
    /\ sent = <<send_log[1].message, send_log[2].message>>

(***************************************************************************)
(* Properties of the TickSnap                                              *)
(***************************************************************************)
\* the step is a TickSnap
Snaps == pc = "PostUpdate" /\ tick' # tick

\* C21 (in-flight messages): a TickSnap leaves every message the channel
\* has taken as it is; the messages whose end_tick moves are those of the
\* MessageBuffer, one for one.
C21_InFlightUnchanged ==
    [][Snaps =>
        /\ sent' = sent
        /\ Len(message_buffer') = Len(message_buffer)
        /\ \A i \in 1..Len(message_buffer) :
            message_buffer'[i].end_tick # message_buffer[i].end_tick]_vars

\* the case of C21: the message of tick 1 was sent in an earlier frame; the
\* tick then snapped from 2 to 4 with the message of tick 2 queued, which
\* moved, and the message sent still ends at its tick.
C21_Witness ==
    /\ pc = "PostUpdate" /\ snapped = <<2>> /\ tick = 4
    /\ Len(sent) = 1 /\ sent[1].end_tick = 1 + cfg.input_delay_ticks
    /\ Len(message_buffer) = 1
    /\ message_buffer[1].end_tick = 4 + cfg.input_delay_ticks

\* C27 (labels only): a TickSnap leaves a buffer without start_tick as it
\* is, creates and removes no buffer, and keeps the states of every other
\* buffer, their order and their number; the MessageBuffer keeps its
\* length, and every message its targets, its states and all but its
\* end_tick; the entities and the configuration are untouched.
C27_LabelsOnly ==
    [][Snaps =>
        /\ \A e \in Entities :
            IF input_buffer[e] = None \/ Unwrap(input_buffer[e]).start_tick = None
                THEN input_buffer'[e] = input_buffer[e]
                ELSE /\ input_buffer'[e] # None
                     /\ Unwrap(input_buffer'[e]).buffer = Unwrap(input_buffer[e]).buffer
        /\ Len(message_buffer') = Len(message_buffer)
        /\ \A i \in 1..Len(message_buffer) :
            [message_buffer'[i] EXCEPT !.end_tick = 0]
                = [message_buffer[i] EXCEPT !.end_tick = 0]
        /\ UNCHANGED worldVars]_vars

\* the case of C27: the tick snapped back by one with two messages queued,
\* of the ticks 1 and 2; they carry their inputs, a and none, for the
\* remote entity 12, and the buffer holds the same two states from tick 0.
C27_Witness ==
    /\ pc = "PostUpdate" /\ snapped = <<-1>>
    /\ Len(message_buffer) = 2
    /\ message_buffer[1].inputs = <<[target |-> EntityTarget(12), states |-> <<"a">>]>>
    /\ message_buffer[2].inputs = <<[target |-> EntityTarget(12), states |-> <<"none">>]>>
    /\ input_buffer[2] = Some([start_tick |-> Some(0), buffer |-> <<"a", "none">>])

\* the end_tick of each message of q is the one of the message before it
\* plus one
Consecutive(q) ==
    \A i \in 1..(Len(q) - 1) : q[i + 1].end_tick = q[i].end_tick + 1

\* C29 (order of transmission): the messages wait in the MessageBuffer in
\* the order of their assembly, a message for each fixed step and each one
\* tick after the one before it, TickSnaps or not; send_message is called on
\* them in that order, and the end_tick of the messages the channel took in
\* a send is strictly increasing.
C29_TransmissionOrder ==
    /\ Consecutive(message_buffer)
    /\ Consecutive([i \in 1..Len(send_log) |-> send_log[i].message])
    /\ \A i, j \in 1..Len(sent) : i < j => sent[i].end_tick < sent[j].end_tick

\* the case of C29: the messages of the ticks 1 and 2 met a TickSnap of -1
\* on their way; the channel took them as the messages of the ticks 0 and
\* 1, in this order.
C29_Witness ==
    /\ pc = "PreUpdate" /\ snaps = 1 /\ tick = 1
    /\ Len(sent) = 2
    /\ sent[1].end_tick = 0 /\ sent[2].end_tick = 1

(***************************************************************************)
(* Properties of the ownership of the buffers                              *)
(***************************************************************************)
\* the step is a reception of messages
Receives == received_inputs # <<>> /\ received_inputs' = <<>>

\* the step is a capture of the local inputs
Captures == tick' # tick

\* C22 (exclusive ownership): the buffer of a controlled entity (one with
\* the InputMarker) changes in a capture only, and no reception writes it,
\* creates it or touches its ActionState; the buffer of any other entity
\* changes in a reception only.
C22_ExclusiveOwnership ==
    [][\A e \in Entities :
        /\ (Receives /\ input_marker[e]) =>
                /\ input_buffer'[e] = input_buffer[e]
                /\ action_state'[e] = action_state[e]
        /\ input_buffer'[e] # input_buffer[e] =>
                IF input_marker[e] THEN Captures ELSE Receives]_vars

\* the case of C22: the confirmed entity 2 is controlled and its buffer has
\* the input captured at tick 1; a message for it was received and refused,
\* and the buffer is as the capture left it.
C22_Witness ==
    /\ received_inputs = <<>>
    /\ error_log = <<UnrecognizedEntity>>
    /\ input_marker[2]
    /\ input_buffer[2] = Some([start_tick |-> Some(1), buffer |-> <<"a">>])

(***************************************************************************)
(* Properties of the target of the reconciliation                          *)
(***************************************************************************)
\* the predicted counterparts of the confirmed entities that the entries of
\* the events resolve to
Counterparts(events) ==
    {e \in Entities :
        \E x \in EntriesOf(events) :
            /\ TargetEntity(x.data.target) # None
            /\ confirmed[Unwrap(TargetEntity(x.data.target))] = Some(Some(e))}

\* C23 (target of the reconciliation): a reception changes or creates the
\* buffer and the ActionState of no entity but the predicted counterparts
\* of the confirmed entities its entries resolve to: the confirmed entities
\* themselves and all other entities keep theirs, and with no counterpart
\* nothing is written; a counterpart that is a predicted entity, neither it
\* nor its confirmed entity controlled, has a buffer afterwards.
C23_ReconcileTarget ==
    [][Receives =>
        /\ \A e \in Entities \ Counterparts(received_inputs) :
                /\ input_buffer'[e] = input_buffer[e]
                /\ action_state'[e] = action_state[e]
        /\ \A e \in Counterparts(received_inputs) :
                (/\ predicted[e] # None /\ ~input_marker[e]
                 /\ \A c \in Entities : confirmed[c] = Some(Some(e)) => ~input_marker[c])
                => input_buffer'[e] # None]_vars

\* the case of C23: the inputs received for the remote entity 12, the
\* confirmed entity 2, are in the buffer of its predicted entity 3, after
\* the state the buffer held; the entity 2 has no buffer.
C23_Witness ==
    /\ received_inputs = <<>> /\ error_log = <<>>
    /\ confirmed[2] = Some(Some(3))
    /\ input_buffer[3] = Some([start_tick |-> Some(0), buffer |-> <<"b", "a">>])
    /\ input_buffer[2] = None /\ input_buffer[1] = None

(***************************************************************************)
(* Properties of the reception without rebroadcast                         *)
(***************************************************************************)
\* C24 (rebroadcast disabled): with rebroadcast_inputs off, the messages
\* received from the other clients are never drained, and no step but the
\* capture of the local inputs changes or creates a buffer or an
\* ActionState, whatever messages have arrived.
C24_RebroadcastDisabled ==
    [][~cfg.rebroadcast_inputs =>
        /\ Len(received_inputs') >= Len(received_inputs)
        /\ action_state' = action_state
        /\ ~Captures => input_buffer' = input_buffer]_vars

\* the case of C24: with rebroadcast_inputs off two messages for the remote
\* entity 12 have arrived; its predicted entity 3, not controlled, has no
\* buffer and no ActionState.
C24_Witness ==
    /\ ~cfg.rebroadcast_inputs
    /\ Len(received_inputs) = 2
    /\ \A i \in 1..2 :
        /\ received_inputs[i].inputs # <<>>
        /\ received_inputs[i].inputs[1].target = EntityTarget(12)
    /\ GetLocal(12) = Some(2) /\ confirmed[2] = Some(Some(3))
    /\ PredictedQueryHas(3)
    /\ input_buffer[3] = None /\ action_state[3] = None

(***************************************************************************)
(* Properties of the assembly                                              *)
(***************************************************************************)
\* C26 (assembly reads only): the assembly of a message leaves every
\* InputBuffer as it is, start_tick and entries; every tick of a run it put
\* in the message that the buffer held still reads the state the message
\* carries.
C26_AssemblyKeepsBuffers ==
    [][(pc = "FixedPostUpdate" /\ ~in_rollback /\ pc' # pc) =>
        /\ Assembles
        /\ input_buffer' = input_buffer
        /\ \A e \in Controlled :
            LET message == Last(message_buffer')
                buf == Unwrap(input_buffer'[e])
            IN  (Resolves(e) /\ IsSome(buf.start_tick)) =>
                \A i \in 1..NumTick(cfg) :
                    LET T == message.end_tick - NumTick(cfg) + i IN
                    T >= Unwrap(buf.start_tick) =>
                        BufferGet(buf, T) =
                            [kind |-> "ok", value |-> message.inputs[1].states[i]]]_vars

\* the case of C26: the latest message carries the input a for the tick
\* before its own, and the buffer of the controlled entity still reads a at
\* that tick.
C26_Witness ==
    /\ pc = "RunFixedMainLoop" /\ message_buffer # <<>>
    /\ LET message == Last(message_buffer) IN
        /\ message.inputs # <<>>
        /\ Len(message.inputs[1].states) >= 2
        /\ message.inputs[1].states[Len(message.inputs[1].states) - 1] = "a"
        /\ \E e \in Controlled :
            BufferGet(Unwrap(input_buffer[e]), message.end_tick - 1)
                = [kind |-> "ok", value |-> "a"]

\* C30 (unique targets): in every message assembled, queued or sent, no
\* two entries have the same target.
C30_UniqueTargets ==
    \A i \in 1..Len(message_buffer \o sent) :
        LET message == (message_buffer \o sent)[i] IN
        \A k, l \in 1..Len(message.inputs) :
            k # l => message.inputs[k].target # message.inputs[l].target

(***************************************************************************)
(* Properties of the input buffer under TickSnaps                          *)
(***************************************************************************)
\* C25 (contiguity): after any sequence of writes, updates, evictions and
\* TickSnaps, a buffer with a start_tick holds one entry for each tick from
\* start_tick to its latest tick, at most Horizon of them; the read of each
\* of these ticks gives a state, and at a tick no write set it gives the
\* state written at the nearest earlier tick.
C25_Contiguity ==
    IF b.start_tick = None THEN b.buffer = <<>>
    ELSE /\ BufferLen(b) \in 1..Horizon
         /\ \A T \in Unwrap(b.start_tick)..BufferEndTick(b) :
                /\ BufferGet(b, T).kind = "ok"
                /\ BufferGet(b, T).value \in ActionStates
                /\ WrittenUpTo(T) # {}
                /\ BufferGet(b, T).value = Unwrap(written[SetMax(WrittenUpTo(T))])

\* the case of C25: after a TickSnap the buffer holds three ticks, the
\* middle one written by nothing: it reads a, the state of the tick before.
C25_Witness ==
    /\ lastop.kind = "resync"
    /\ IsSome(b.start_tick) /\ BufferLen(b) = 3
    /\ LET t == Unwrap(b.start_tick) IN
        /\ written[t] = Some("a") /\ written[t + 1] = None
        /\ written[t + 2] = Some("b")
        /\ BufferGet(b, t + 1) = [kind |-> "ok", value |-> "a"]

\* C28 (resync commutes with reads): for a TickSnap of delta and every tick
\* T, the read of T + delta after the TickSnap gives what the read of T gave
\* before it: the same state, the same expired failure, or the same answer
\* of a buffer that holds nothing.
C28_ResyncCommutes ==
    [][lastop'.kind = "resync" =>
        \A T \in (0 - 3)..(MaxBufTick + 3) :
            BufferGet(b', T + lastop'.delta) = BufferGet(b, T)]_vars

\* the case of C28: the TickSnap of -1 met a buffer that had evicted its
\* first tick; the tick before the new start_tick is expired, as the tick
\* before the old one was, and the new start_tick reads a state.
C28_Witness ==
    /\ lastop.kind = "resync" /\ lastop.delta = 0 - 1
    /\ IsSome(b.start_tick) /\ BufferLen(b) = Horizon
    /\ BufferGet(lastop.before, Unwrap(b.start_tick)).kind = "expired"
    /\ BufferGet(b, Unwrap(b.start_tick) - 1).kind = "expired"
    /\ BufferGet(b, Unwrap(b.start_tick)).kind = "ok"
    /\ \E t \in BufTicks : t < Unwrap(b.start_tick) /\ IsSome(written[t])

====
